---- MODULE Spec2Model ----
(***************************************************************************)
(* Model of the Kronos prediction router                                   *)
(* (python/valuecell/server/api/routers/kronos.py) and of the Yahoo        *)
(* Finance downloader (python/Kronos/webui/data_downloader.py).            *)
(*                                                                         *)
(* Four specifications share the module:                                   *)
(*   Spec       the router process: load_model and predict requests        *)
(*              acting on the module-level model slot;                     *)
(*   SpecRecon  one predict request at a time over the whole range of row  *)
(*              counts, for the parameter reconciliation;                  *)
(*   SpecFuture the future timestamp generation of predict;                *)
(*   SpecFetch  download_yahoo_finance_data.                               *)
(***************************************************************************)
EXTENDS Integers, Sequences, FiniteSets, TLC

VARIABLES
    MODEL_AVAILABLE,     \* kronos.py:24-33, fixed at import time
    tokenizer,           \* _tokenizer: key the tokenizer was loaded from, or None
    model,               \* _model: key the model was loaded from, or None
    predictor,           \* _predictor: key the predictor was built for, or None
    current_model_key,   \* _current_model_key
    pc,                  \* "idle", or "responded" once a handler has returned
    request,             \* the request being answered (<<>> when idle)
    response,            \* the envelope the handler returned (<<>> when idle)
    error,               \* what went wrong while handling the request
    predictor_call,      \* arguments of _predictor.predict in this request
    df_len,              \* len(df) of the history fetched in this request
    slot_before,         \* the four globals as the request found them
    loading,             \* the load this request went through, if any
    last_loaded,         \* key of the last load that ran to its end
    inflight,            \* predict requests accepted and not yet answered
    fut_pc,              \* predict, lines 343-358: "off", "window", "generated"
    x_timestamp,         \* predict: timestamps of the lookback window
    periods,             \* predict: periods given to pd.date_range
    avg_diff,            \* predict: the median gap of the window
    future_timestamps,   \* predict: the generated future timestamps
    dl_pc,               \* downloader: "call", "returned" or "raised"
    dl_args,             \* downloader: arguments and what the remote end does
    dl_df,               \* downloader: the returned DataFrame, a sequence of rows
    dl_raised,           \* downloader: exception that reached the caller
    dl_file              \* downloader: rows of the CSV written, <<>> if none

slot == <<tokenizer, model, predictor, current_model_key>>
routerVars == <<MODEL_AVAILABLE, tokenizer, model, predictor, current_model_key,
                pc, request, response, error, predictor_call, df_len,
                slot_before, loading, last_loaded, inflight>>
futureVars == <<fut_pc, x_timestamp, periods, avg_diff, future_timestamps>>
fetchVars == <<dl_pc, dl_args, dl_df, dl_raised, dl_file>>
vars == <<routerVars, futureVars, fetchVars>>

None == "None"

(***************************************************************************)
(* Bounds of the model.                                                    *)
(***************************************************************************)
MaxRows == 700
\* Instants are counted in ticks from a Monday 00:00; a day has TicksPerDay.
TicksPerDay == 2
MaxWindow == 4
MaxPeriods == 6
MaxBars == 3

(***************************************************************************)
(* kronos.py: catalog and request validation.                              *)
(***************************************************************************)
AVAILABLE_MODELS == {"kronos-mini", "kronos-small", "kronos-base"}

DefaultModelKey == "kronos-base"

LookbackGe == 100
LookbackLe == 512
PredLenGe == 30
PredLenLe == 180

\* PredictionRequest: the fields pydantic lets through to the handler.
PredictionRequest(keys, lookbacks, pred_lens) ==
    [model_key : keys,
     lookback : lookbacks \cap (LookbackGe..LookbackLe),
     pred_len : pred_lens \cap (PredLenGe..PredLenLe)]

min_lookback == 100
min_pred_len == 30

\* Mutant of IntThreeQuarters: the product rounded up instead of truncated.
IntThreeQuartersRoundedUp(available) == (available * 3 + 3) \div 4

\* int(available * 0.75): the product is exact in binary floating point for
\* every row count of the model, and int() truncates a non-negative value.
IntThreeQuarters(available) == (available * 3) \div 4

Min(a, b) == IF a <= b THEN a ELSE b

\* Mutant of Reconcile: the guard of line 304 left out, so that a sufficient
\* history is adjusted too.
ReconcileAlwaysAdjusts(lookback, pred_len, available) ==
    IF available < min_lookback + min_pred_len
    THEN [failed |-> TRUE, actual_lookback |-> lookback,
          actual_pred_len |-> pred_len]
    ELSE IF available >= lookback + min_pred_len
    THEN [failed |-> FALSE, actual_lookback |-> lookback,
          actual_pred_len |-> available - lookback]
    ELSE [failed |-> FALSE,
          actual_lookback |-> Min(lookback, IntThreeQuarters(available)),
          actual_pred_len |->
              available - Min(lookback, IntThreeQuarters(available))]

\* Mutant of Reconcile: the test of line 311 against min_lookback alone.
ReconcileLookbackMinimumOnly(lookback, pred_len, available) ==
    IF ~(available < lookback + pred_len)
    THEN [failed |-> FALSE, actual_lookback |-> lookback,
          actual_pred_len |-> pred_len]
    ELSE IF available < min_lookback
    THEN [failed |-> TRUE, actual_lookback |-> lookback,
          actual_pred_len |-> pred_len]
    ELSE IF available >= lookback + min_pred_len
    THEN [failed |-> FALSE, actual_lookback |-> lookback,
          actual_pred_len |-> available - lookback]
    ELSE [failed |-> FALSE,
          actual_lookback |-> Min(lookback, IntThreeQuarters(available)),
          actual_pred_len |->
              available - Min(lookback, IntThreeQuarters(available))]

\* predict, lines 299-331: the reconciliation of lookback and pred_len with
\* the number of rows of df.
Reconcile(lookback, pred_len, available) ==
    LET total_needed == lookback + pred_len
    IN  IF ~(available < total_needed)
        THEN [failed |-> FALSE, actual_lookback |-> lookback,
              actual_pred_len |-> pred_len]
        ELSE IF available < min_lookback + min_pred_len
        THEN [failed |-> TRUE, actual_lookback |-> lookback,
              actual_pred_len |-> pred_len]
        ELSE IF available >= lookback + min_pred_len
        THEN [failed |-> FALSE, actual_lookback |-> lookback,
              actual_pred_len |-> available - lookback]
        ELSE LET actual_lookback == Min(lookback, IntThreeQuarters(available))
             IN  [failed |-> FALSE, actual_lookback |-> actual_lookback,
                  actual_pred_len |-> available - actual_lookback]


(***************************************************************************)
(* kronos.py: the module-level model slot and its loading.                 *)
(***************************************************************************)

\* Mutant of LoadedTokenizer: a load that raises leaves no trace.
LoadedTokenizerOnSuccess(key, load) == IF load = "ok" THEN key ELSE tokenizer

\* Mutant of NeedsLoad: whatever is loaded is reused.
NeedsLoadWhenEmpty(key) == predictor = None

\* Where the three constructor calls of a load can raise.
LoadOutcomes == {"ok", "tokenizer", "model", "predictor"}

\* Lines 207-210 and 248-251: the four globals are assigned one after the
\* other, so a call that raises leaves the earlier assignments in place.
LoadedTokenizer(key, load) == IF load = "tokenizer" THEN tokenizer ELSE key
LoadedModel(key, load) == IF load \in {"tokenizer", "model"} THEN model ELSE key
LoadedPredictor(key, load) == IF load = "ok" THEN key ELSE predictor
LoadedKey(key, load) == IF load = "ok" THEN key ELSE current_model_key

AfterLoad(key, load) ==
    <<LoadedTokenizer(key, load), LoadedModel(key, load),
      LoadedPredictor(key, load), LoadedKey(key, load)>>

\* SuccessResponse.create(data=..., msg=...): data is <<>> when not given.
Envelope(data, msg) == [data |-> data, msg |-> msg]

\* msg is not given where the handler passes data.
NoMsg == ""

Message(text, a, b) == [text |-> text, a |-> a, b |-> b]

\* PredictionResponse(success=False, prediction_type="error", ...), as built
\* at lines 228-235, 256-263, 281-288, 313-320 and 420-427.
ErrorResponse(message) ==
    [success |-> FALSE, prediction_type |-> "error", chart |-> None,
     prediction_results |-> 0, stamps |-> [future |-> 0, now |-> 0],
     actual_data |-> 0, has_comparison |-> FALSE,
     time_range |-> FALSE, message |-> message]

\* Mutant of ResultStamps: every row takes the current time.
ResultStampsAllNow(n_results, n_future) == [future |-> 0, now |-> n_results]

\* Lines 377-378: row i of pred_df takes future_timestamps[i] while there is
\* one, and pd.Timestamp.now() beyond: how many rows got which.
ResultStamps(n_results, n_future) ==
    [future |-> Min(n_results, n_future),
     now |-> n_results - Min(n_results, n_future)]

\* PredictionResponse(success=True, ...), lines 375-413, for a pred_df of
\* n_results rows and n_future future timestamps.
SuccessfulResponse(n_results, n_future, chart) ==
    [success |-> TRUE, prediction_type |-> "Kronos prediction",
     chart |-> chart, prediction_results |-> n_results,
     stamps |-> ResultStamps(n_results, n_future), actual_data |-> 0,
     has_comparison |-> FALSE, time_range |-> TRUE,
     message |-> Message("Prediction completed with n points", n_results, -1)]

NoCall == [made |-> FALSE, by |-> None, lookback |-> 0, pred_len |-> 0]

NotFetched == -1

\* Lines 199-210 and 244-252: the load a request goes through, and the step
\* at which it raised ("ok" when it ran to its end).
NoLoad == [key |-> None, outcome |-> "none"]
Load(key, outcome) == [key |-> key, outcome |-> outcome]

Respond(newslot, req, resp, err, call, rows, load) ==
    /\ tokenizer' = newslot[1]
    /\ model' = newslot[2]
    /\ predictor' = newslot[3]
    /\ current_model_key' = newslot[4]
    /\ pc' = "responded"
    /\ request' = <<req>>
    /\ response' = resp
    /\ error' = err
    /\ predictor_call' = call
    /\ df_len' = rows
    /\ slot_before' = slot
    /\ loading' = load
    /\ last_loaded' = IF load.outcome = "ok" THEN load.key ELSE last_loaded
    /\ UNCHANGED <<MODEL_AVAILABLE, inflight, futureVars, fetchVars>>

(***************************************************************************)
(* POST /kronos/load-model, lines 189-219.                                 *)
(***************************************************************************)
LoadModelRequest(keys) == [model_key : keys]

load_model(req, load) ==
    IF ~MODEL_AVAILABLE
    THEN Respond(slot, req,
                 Envelope(<<>>, "Kronos model library not available"),
                 "library_unavailable", NoCall, NotFetched, NoLoad)
    ELSE IF req.model_key \notin AVAILABLE_MODELS
    THEN Respond(slot, req, Envelope(<<>>, "Unsupported model"),
                 "unsupported_model", NoCall, NotFetched, NoLoad)
    ELSE IF load = "ok"
    THEN Respond(AfterLoad(req.model_key, load), req,
                 Envelope(<<>>, "Model loaded"), "none", NoCall, NotFetched,
                 Load(req.model_key, load))
    ELSE Respond(AfterLoad(req.model_key, load), req,
                 Envelope(<<>>, "Failed to load model"), "load_failed", NoCall,
                 NotFetched, Load(req.model_key, load))

(***************************************************************************)
(* POST /kronos/predict, lines 221-428.                                    *)
(***************************************************************************)

\* Lines 239-241.
RequestedModelKey(req) ==
    IF req.model_key \notin AVAILABLE_MODELS THEN DefaultModelKey
    ELSE req.model_key

\* Line 244.
NeedsLoad(key) == predictor = None \/ current_model_key # key

SlotForPredict(key) == IF NeedsLoad(key) THEN AfterLoad(key, "ok") ELSE slot

LoadForPredict(key) == IF NeedsLoad(key) THEN Load(key, "ok") ELSE NoLoad

\* Lines 363-371: what _predictor.predict is called with.
PredictorCall(by, rec) ==
    [made |-> TRUE, by |-> by, lookback |-> rec.actual_lookback,
     pred_len |-> rec.actual_pred_len]

\* Lines 226-236.
PredictLibraryUnavailable(req) ==
    /\ ~MODEL_AVAILABLE
    /\ Respond(slot, req,
               Envelope(<<ErrorResponse(Message(
                   "Kronos model library not available", -1, -1))>>, NoMsg),
               "library_unavailable", NoCall, NotFetched, NoLoad)

\* Lines 244-264, a constructor raising.
PredictLoadFails(req, load) ==
    /\ MODEL_AVAILABLE
    /\ NeedsLoad(RequestedModelKey(req))
    /\ load # "ok"
    /\ Respond(AfterLoad(RequestedModelKey(req), load), req,
               Envelope(<<ErrorResponse(Message("Failed to load model", -1, -1))>>,
                        NoMsg),
               "load_failed", NoCall, NotFetched,
               Load(RequestedModelKey(req), load))

\* Lines 266-277 and 415-428: yfinance raising.
PredictFetchRaises(req) ==
    /\ MODEL_AVAILABLE
    /\ Respond(SlotForPredict(RequestedModelKey(req)), req,
               Envelope(<<ErrorResponse(Message("Prediction failed", -1, -1))>>,
                        NoMsg),
               "fetch_exception", NoCall, NotFetched,
               LoadForPredict(RequestedModelKey(req)))

\* Lines 279-289.
PredictNoData(req, rows) ==
    /\ MODEL_AVAILABLE
    /\ rows = 0
    /\ Respond(SlotForPredict(RequestedModelKey(req)), req,
               Envelope(<<ErrorResponse(Message("No data available for ticker",
                                                -1, -1))>>, NoMsg),
               "no_data", NoCall, rows,
               LoadForPredict(RequestedModelKey(req)))

\* Lines 304-321.
PredictInsufficient(req, rows) ==
    /\ MODEL_AVAILABLE
    /\ rows # 0
    /\ Reconcile(req.lookback, req.pred_len, rows).failed
    /\ Respond(SlotForPredict(RequestedModelKey(req)), req,
               Envelope(<<ErrorResponse(Message(
                   "Insufficient data: need at least, got",
                   min_lookback + min_pred_len, rows))>>, NoMsg),
               "insufficient_data", NoCall, rows,
               LoadForPredict(RequestedModelKey(req)))

\* Lines 333-371 and 415-428: _predictor.predict raising.
PredictInferenceRaises(req, rows) ==
    LET rec == Reconcile(req.lookback, req.pred_len, rows)
        newslot == SlotForPredict(RequestedModelKey(req))
    IN  /\ MODEL_AVAILABLE
        /\ rows # 0
        /\ ~rec.failed
        /\ Respond(newslot, req,
                   Envelope(<<ErrorResponse(Message("Prediction failed", -1, -1))>>,
                            NoMsg),
                   "predictor_exception", PredictorCall(newslot[3], rec), rows,
                   LoadForPredict(RequestedModelKey(req)))

ChartOutcomes == {"json", None}

\* Lines 363-373: len(pred_df). The predictor is external to the handler,
\* which takes whatever number of rows comes back and provides for more rows
\* than future timestamps (line 378).
ReturnedRows(pred_len) == {pred_len - 1, pred_len, pred_len + 1}

\* Lines 333-413; _create_prediction_chart returns None when it fails
\* (lines 509-513).
PredictSucceeds(req, rows, chart) ==
    LET rec == Reconcile(req.lookback, req.pred_len, rows)
        newslot == SlotForPredict(RequestedModelKey(req))
    IN  /\ MODEL_AVAILABLE
        /\ rows # 0
        /\ ~rec.failed
        /\ \E returned \in ReturnedRows(rec.actual_pred_len) :
               Respond(newslot, req,
                       Envelope(<<SuccessfulResponse(returned,
                                                     rec.actual_pred_len,
                                                     chart)>>, NoMsg),
                       "none", PredictorCall(newslot[3], rec), rows,
                       LoadForPredict(RequestedModelKey(req)))

predict(req, Rows) ==
    \/ PredictLibraryUnavailable(req)
    \/ \E load \in LoadOutcomes : PredictLoadFails(req, load)
    \/ PredictFetchRaises(req)
    \/ \E rows \in Rows :
        \/ PredictNoData(req, rows)
        \/ PredictInsufficient(req, rows)
        \/ PredictInferenceRaises(req, rows)
        \/ \E chart \in ChartOutcomes : PredictSucceeds(req, rows, chart)

\* The response leaves the process; the next request finds only the slot.
Reply ==
    /\ pc = "responded"
    /\ pc' = "idle"
    /\ request' = <<>>
    /\ response' = Envelope(<<>>, "")
    /\ error' = "none"
    /\ predictor_call' = NoCall
    /\ df_len' = NotFetched
    /\ slot_before' = slot
    /\ loading' = NoLoad
    /\ inflight' = inflight \ {request[1]}
    /\ UNCHANGED <<MODEL_AVAILABLE, slot, last_loaded, futureVars, fetchVars>>

(***************************************************************************)
(* data_downloader.py: download_yahoo_finance_data, lines 13-141.          *)
(***************************************************************************)

\* None in a JSON array, NaN or NaT in the DataFrame.
NULL == -1

\* What a call was given and what its environment did.
Args(dates, http, payload, bars, disk) ==
    [dates |-> dates, http |-> http, payload |-> payload, bars |-> bars,
     disk |-> disk]

NoArgs == Args(None, None, None, <<>>, None)

Exc(type, cause) == [type |-> type, cause |-> cause]

NoException == Exc(None, None)

\* Mutant of Reraise: the handlers of lines 138-141 left out.
ReraiseAsIs(type, cause) == Exc(type, cause)

\* Lines 138-141: what an exception raised inside the try becomes.
Reraise(type, cause) ==
    IF type = "RequestException" THEN Exc("ConnectionError", cause)
    ELSE Exc("Exception", cause)

Columns == {"open", "high", "low", "close", "volume"}

\* One entry of the parallel arrays of the payload, `nulls` the arrays that
\* hold None at this index.
Bar(ts, nulls) ==
    [timestamps |-> ts,
     open |-> IF "open" \in nulls THEN NULL ELSE 2,
     high |-> IF "high" \in nulls THEN NULL ELSE 2,
     low |-> IF "low" \in nulls THEN NULL ELSE 2,
     close |-> IF "close" \in nulls THEN NULL ELSE 2,
     volume |-> IF "volume" \in nulls THEN NULL ELSE 2]

\* Line 106: NaN where volume, open or close is NaN.
Amount(bar) ==
    IF NULL \in {bar.volume, bar.open, bar.close} THEN NULL
    ELSE (bar.volume * (bar.open + bar.close)) \div 2

\* Lines 95-106: one row of the DataFrame.
Row(bar) ==
    [timestamps |-> bar.timestamps, open |-> bar.open, high |-> bar.high,
     low |-> bar.low, close |-> bar.close, volume |-> bar.volume,
     amount |-> Amount(bar)]

HasNull(row) ==
    NULL \in {row.timestamps, row.open, row.high, row.low, row.close,
              row.volume, row.amount}

RECURSIVE dropna(_)
\* Line 109.
dropna(rows) ==
    IF rows = <<>> THEN <<>>
    ELSE IF HasNull(Head(rows)) THEN dropna(Tail(rows))
    ELSE <<Head(rows)>> \o dropna(Tail(rows))

RECURSIVE Insert(_, _)
Insert(row, sorted) ==
    IF sorted = <<>> THEN <<row>>
    ELSE IF row.timestamps < Head(sorted).timestamps THEN <<row>> \o sorted
    ELSE <<Head(sorted)>> \o Insert(row, Tail(sorted))

RECURSIVE sort_values(_)
\* Line 112: ascending by timestamps; reset_index renumbers the rows, which a
\* sequence does by itself.
sort_values(rows) ==
    IF rows = <<>> THEN <<>>
    ELSE Insert(rows[Len(rows)], sort_values(SubSeq(rows, 1, Len(rows) - 1)))

\* Lines 94-112.
BuildFrame(bars) == sort_values(dropna([i \in 1..Len(bars) |-> Row(bars[i])]))

Finish(args, state, df, exc, file) ==
    /\ dl_pc' = state
    /\ dl_args' = args
    /\ dl_df' = df
    /\ dl_raised' = exc
    /\ dl_file' = file
    /\ UNCHANGED <<routerVars, futureVars>>

\* Lines 56-58, before the try: strptime raises on a malformed date.
DownloadBadDate ==
    Finish(Args("malformed", None, None, <<>>, None), "raised", <<>>,
           Exc("ValueError", "date"), <<>>)

\* Line 76 (no connection, timeout) and line 77 (HTTP error status): both
\* raise a RequestException.
RequestFailures == {"request_error", "http_error"}

DownloadRequestFails(http) ==
    Finish(Args("valid", http, None, <<>>, None), "raised", <<>>,
           Reraise("RequestException", http), <<>>)

\* Line 78: response.json() on a body that is no JSON raises a ValueError,
\* which is a RequestException too from requests 2.27 on.
JsonErrors == {"ValueError", "RequestException"}

DownloadBadJson(type) ==
    Finish(Args("valid", "ok", "no_json", <<>>, None), "raised", <<>>,
           Reraise(type, "json"), <<>>)

\* Lines 81-82.
NoResultPayloads == {"chart_absent", "result_absent", "result_empty"}

DownloadNoResult(payload) ==
    Finish(Args("valid", "ok", payload, <<>>, None), "raised", <<>>,
           Reraise("ValueError", "no_data_for_symbol"), <<>>)

\* Lines 87-89.
NoTimestampPayloads == {"timestamp_absent", "timestamp_empty"}

DownloadNoTimestamps(payload) ==
    Finish(Args("valid", "ok", payload, <<>>, None), "raised", <<>>,
           Reraise("ValueError", "no_history"), <<>>)

\* Line 92: indicators or quote missing.
DownloadNoQuote ==
    Finish(Args("valid", "ok", "quote_absent", <<>>, None), "raised", <<>>,
           Reraise("KeyError", "quote"), <<>>)

\* Lines 95-102: an array of the quote that is absent, so taken as [], or of
\* another length than the timestamps.
DownloadRaggedArrays ==
    Finish(Args("valid", "ok", "ragged", <<>>, None), "raised", <<>>,
           Reraise("ValueError", "arrays"), <<>>)

\* Lines 119 and 128: makedirs or to_csv raising an OSError, whatever the
\* bars of the payload.
DiskFailures == {"makedirs_error", "to_csv_error"}

DownloadDiskFails(disk) ==
    Finish(Args("valid", "ok", "bars", <<>>, disk), "raised", <<>>,
           Reraise("OSError", disk), <<>>)

\* Lines 94-136.
DownloadReturns(bars) ==
    Finish(Args("valid", "ok", "bars", bars, "ok"), "returned",
           <<BuildFrame(bars)>>, NoException, <<BuildFrame(bars)>>)

NullChoices == {{}} \cup {{c} : c \in Columns}

\* Epoch seconds of the payload's timestamp array.
PayloadTimestamps == {1, 2}

BarSets == {Bar(ts, nulls) : ts \in PayloadTimestamps, nulls \in NullChoices}

RECURSIVE BarsOfLength(_)
BarsOfLength(n) ==
    IF n = 0 THEN {<<>>}
    ELSE {Append(b, bar) : b \in BarsOfLength(n - 1), bar \in BarSets}

Payloads == UNION {BarsOfLength(n) : n \in 1..MaxBars}

download_yahoo_finance_data ==
    \/ DownloadBadDate
    \/ \E http \in RequestFailures : DownloadRequestFails(http)
    \/ \E type \in JsonErrors : DownloadBadJson(type)
    \/ \E payload \in NoResultPayloads : DownloadNoResult(payload)
    \/ \E payload \in NoTimestampPayloads : DownloadNoTimestamps(payload)
    \/ DownloadNoQuote
    \/ DownloadRaggedArrays
    \/ \E disk \in DiskFailures : DownloadDiskFails(disk)
    \/ \E bars \in Payloads : DownloadReturns(bars)

(***************************************************************************)
(* The router process.                                                     *)
(***************************************************************************)
RequestKeys == {"kronos-mini", "kronos-base", "kronos-large"}
Lookbacks == {100, 400}
PredLens == {30, 120}
HistoryLengths == {0, 50, 150, 450, MaxRows}

InitFuture ==
    /\ fut_pc = "off"
    /\ x_timestamp = <<>>
    /\ periods = 0
    /\ avg_diff = 0
    /\ future_timestamps = <<>>

InitFetch ==
    /\ dl_pc = "off"
    /\ dl_args = NoArgs
    /\ dl_df = <<>>
    /\ dl_raised = NoException
    /\ dl_file = <<>>

InitRouter ==
    /\ MODEL_AVAILABLE \in BOOLEAN
    /\ tokenizer = None
    /\ model = None
    /\ predictor = None
    /\ current_model_key = None
    /\ pc = "idle"
    /\ request = <<>>
    /\ response = Envelope(<<>>, "")
    /\ error = "none"
    /\ predictor_call = NoCall
    /\ df_len = NotFetched
    /\ slot_before = <<None, None, None, None>>
    /\ loading = NoLoad
    /\ last_loaded = None
    /\ inflight = {}

Init == InitRouter /\ InitFuture /\ InitFetch

LoadModel ==
    /\ pc = "idle"
    /\ \E req \in LoadModelRequest(RequestKeys), load \in LoadOutcomes :
        load_model(req, load)

Predict ==
    /\ pc = "idle"
    /\ \E req \in PredictionRequest(RequestKeys, Lookbacks, PredLens) :
        predict(req, HistoryLengths)

Next == LoadModel \/ Predict \/ Reply

Spec == Init /\ [][Next]_vars

(***************************************************************************)
(* One predict request at a time, over every row count up to MaxRows.      *)
(***************************************************************************)
ReconLookbacks == {100, 101, 102, 103, 104, 150, 400, 512}
ReconPredLens == {30, 31, 120, 180}

PredictRecon ==
    /\ pc = "idle"
    /\ \E req \in PredictionRequest({DefaultModelKey}, ReconLookbacks,
                                    ReconPredLens) :
        predict(req, 0..MaxRows)

NextRecon == PredictRecon \/ Reply

SpecRecon == Init /\ [][NextRecon]_vars

(***************************************************************************)
(* Several requests in flight in one process. The handlers are coroutines  *)
(* (async def, lines 190 and 222) that contain no await: the event loop    *)
(* runs each from its first line to its return before it starts another,   *)
(* in whatever order it picks among the requests in flight.                *)
(***************************************************************************)
MaxInFlight == 2

LoopRequests == PredictionRequest(RequestKeys, {100}, {30})

LoopHistoryLengths == {0, 150}

\* A predict request arrives while others wait or one is being answered.
Accept ==
    /\ Cardinality(inflight) < MaxInFlight
    /\ \E req \in LoopRequests \ inflight : inflight' = inflight \cup {req}
    /\ UNCHANGED <<MODEL_AVAILABLE, slot, pc, request, response, error,
                   predictor_call, df_len, slot_before, loading, last_loaded,
                   futureVars, fetchVars>>

\* The event loop runs the handler of one of the requests in flight.
Serve(req) ==
    /\ pc = "idle"
    /\ req \in inflight
    /\ predict(req, LoopHistoryLengths)

RunPredict == \E req \in LoopRequests : Serve(req)

NextLoop == Accept \/ RunPredict \/ LoadModel \/ Reply

SpecLoop == Init /\ [][NextLoop]_vars

\* The event loop gets to every request in flight, whatever else arrives,
\* and sends every response.
SpecLoopFair ==
    /\ SpecLoop
    /\ \A req \in LoopRequests : SF_vars(Serve(req))
    /\ WF_vars(Reply)

(***************************************************************************)
(* predict, lines 343-358: the future timestamps.                          *)
(***************************************************************************)
Day == TicksPerDay

\* Timestamp.weekday(): Monday is 0, Sunday is 6.
Weekday(t) == (t \div TicksPerDay) % 7

\* x_timestamp.diff().dropna(), line 347.
TimeDiffs(ts) == [i \in 1..(Len(ts) - 1) |-> ts[i + 1] - ts[i]]

\* The k-th smallest element of a non-empty sequence.
KthSmallest(seq, k) ==
    CHOOSE v \in {seq[i] : i \in 1..Len(seq)} :
        /\ Cardinality({i \in 1..Len(seq) : seq[i] < v}) < k
        /\ k <= Cardinality({i \in 1..Len(seq) : seq[i] <= v})

\* Series.median(), line 348: the middle value, or the mean of the two middle
\* values, which a Timedelta holds truncated to its resolution.
Median(seq) ==
    LET n == Len(seq)
    IN  IF n % 2 = 1 THEN KthSmallest(seq, (n + 1) \div 2)
        ELSE (KthSmallest(seq, n \div 2) + KthSmallest(seq, n \div 2 + 1)) \div 2

\* Lines 346-350.
AvgDiff(ts) == IF Len(ts) > 1 THEN Median(TimeDiffs(ts)) ELSE Day

\* Mutant of RollForward: the start is taken as it is.
RollForwardNever(t) == t

\* pd.date_range with freq='B': a start that is not a business day is rolled
\* forward to the next one, at the same time of day.
RollForward(t) ==
    IF Weekday(t) > 4 THEN t + (7 - Weekday(t)) * Day ELSE t

\* Mutant of NextBusinessDay: calendar days (freq='D').
NextCalendarDay(t) == t + Day

\* cur + BusinessDay(1), the step of the range.
NextBusinessDay(t) ==
    IF Weekday(t) > 4 THEN t + (7 - Weekday(t)) * Day
    ELSE IF Weekday(t) + 1 <= 4 THEN t + Day
    ELSE t + 3 * Day

RECURSIVE BusinessDays(_, _)
BusinessDays(cur, n) ==
    IF n = 0 THEN <<>> ELSE <<cur>> \o BusinessDays(NextBusinessDay(cur), n - 1)

\* Lines 353-357: pd.date_range(start=..., periods=..., freq='B').
bdate_range(start, n) == BusinessDays(RollForward(start), n)

\* Lines 343-358.
GenerateFutureTimestamps ==
    /\ fut_pc = "window"
    /\ fut_pc' = "generated"
    /\ avg_diff' = AvgDiff(x_timestamp)
    /\ future_timestamps' =
           bdate_range(x_timestamp[Len(x_timestamp)] + AvgDiff(x_timestamp),
                       periods)
    /\ UNCHANGED <<x_timestamp, periods, routerVars, fetchVars>>

\* Gaps between consecutive timestamps of a window, in ticks.
Gaps == {1, TicksPerDay, 2 * TicksPerDay, 3 * TicksPerDay}

RECURSIVE Windows(_)
\* The strictly increasing sequences of n timestamps starting within a week.
Windows(n) ==
    IF n = 1 THEN {<<t>> : t \in 0..(7 * TicksPerDay - 1)}
    ELSE {Append(w, w[Len(w)] + g) : w \in Windows(n - 1), g \in Gaps}

InitWindow ==
    /\ fut_pc = "window"
    /\ \E n \in 1..MaxWindow : x_timestamp \in Windows(n)
    /\ periods \in 1..MaxPeriods
    /\ avg_diff = 0
    /\ future_timestamps = <<>>

NextFuture == GenerateFutureTimestamps

InitGenerator ==
    InitRouter /\ MODEL_AVAILABLE = TRUE /\ InitWindow /\ InitFetch

SpecFuture == InitGenerator /\ [][NextFuture]_vars

(***************************************************************************)
(* One call of download_yahoo_finance_data.                                *)
(***************************************************************************)
InitCall ==
    /\ dl_pc = "call"
    /\ dl_args = NoArgs
    /\ dl_df = <<>>
    /\ dl_raised = NoException
    /\ dl_file = <<>>

Download == dl_pc = "call" /\ download_yahoo_finance_data

NextFetch == Download

InitDownload ==
    InitRouter /\ MODEL_AVAILABLE = TRUE /\ InitFuture /\ InitCall

SpecFetch == InitDownload /\ [][NextFetch]_vars

(***************************************************************************)
(* Properties of the parameter reconciliation, checked under SpecRecon.    *)
(***************************************************************************)
Req == request[1]
Data == response.data[1]

\* The request has been answered by predict after df was fetched.
Fetched == pc = "responded" /\ df_len # NotFetched

\* floor(a * 0.75), stated without the division.
Floor75(a) == CHOOSE n \in 0..a : 4 * n <= 3 * a /\ 3 * a < 4 * (n + 1)

\* C1: when the history has at least lookback + pred_len rows, predict calls
\* the predictor with the requested lookback and pred_len, unadjusted.
C1_NoAdjustment ==
    (Fetched /\ df_len >= Req.lookback + Req.pred_len)
        => /\ predictor_call.made
           /\ predictor_call.lookback = Req.lookback
           /\ predictor_call.pred_len = Req.pred_len

C1_Witness ==
    /\ Fetched
    /\ Req.lookback = 512 /\ Req.pred_len = 180
    /\ df_len = 512 + 180
    /\ predictor_call.made
    /\ predictor_call.lookback = 512 /\ predictor_call.pred_len = 180

InsufficientReported ==
    /\ Data.success = FALSE
    /\ Data.message.text = "Insufficient data: need at least, got"
    /\ Data.message.a = 130
    /\ Data.message.b = df_len
    /\ ~predictor_call.made

\* C2 as stated: every history shorter than lookback + pred_len and shorter
\* than 130 rows ends in the "insufficient data" failure, 130 against the
\* row count, without a call of the predictor.
C2_Original ==
    (Fetched /\ df_len < Req.lookback + Req.pred_len /\ df_len < 130)
        => InsufficientReported

\* C2 amended: a non-empty history of fewer than 130 rows (and fewer than
\* lookback + pred_len) ends in the "insufficient data" failure, 130 against
\* the row count; an empty history ends earlier in the "no data" failure;
\* in neither case is the predictor called.
C2_InsufficientHistory ==
    (Fetched /\ df_len < Req.lookback + Req.pred_len /\ df_len < 130)
        => IF df_len >= 1
           THEN InsufficientReported
           ELSE /\ Data.success = FALSE
                /\ Data.message.text = "No data available for ticker"
                /\ ~predictor_call.made

C2_Witness ==
    /\ Fetched
    /\ Req.lookback = 100 /\ Req.pred_len = 30
    /\ df_len = 50
    /\ InsufficientReported
    /\ error = "insufficient_data"

\* C3: with 130 <= rows < lookback + pred_len the predictor is called with
\* (lookback, rows - lookback) when rows >= lookback + 30, and otherwise with
\* (L, rows - L), L = min(lookback, floor(rows * 0.75)); (150, 400, 120)
\* gives (112, 38) and (450, 400, 120) gives (400, 50).
C3_Adjustment ==
    (Fetched /\ 130 <= df_len /\ df_len < Req.lookback + Req.pred_len)
        => /\ predictor_call.made
           /\ IF df_len >= Req.lookback + 30
              THEN /\ predictor_call.lookback = Req.lookback
                   /\ predictor_call.pred_len = df_len - Req.lookback
              ELSE /\ predictor_call.lookback
                        = Min(Req.lookback, Floor75(df_len))
                   /\ predictor_call.pred_len
                        = df_len - Min(Req.lookback, Floor75(df_len))
           /\ (Req.lookback = 400 /\ Req.pred_len = 120 /\ df_len = 150)
                => (predictor_call.lookback = 112
                    /\ predictor_call.pred_len = 38)
           /\ (Req.lookback = 400 /\ Req.pred_len = 120 /\ df_len = 450)
                => (predictor_call.lookback = 400
                    /\ predictor_call.pred_len = 50)

C3_Witness ==
    /\ Fetched
    /\ Req.lookback = 400 /\ Req.pred_len = 120
    /\ df_len = 150
    /\ predictor_call.made
    /\ predictor_call.lookback = 112 /\ predictor_call.pred_len = 38

\* C4: whenever the reconciliation does not fail, the values given to the
\* predictor respect the declared minimums: lookback >= 100, pred_len >= 30.
C4_MinimumsRespected ==
    (Fetched /\ predictor_call.made)
        => /\ predictor_call.lookback >= min_lookback
           /\ predictor_call.pred_len >= min_pred_len

(***************************************************************************)
(* Properties of the future timestamps, checked under SpecFuture.          *)
(***************************************************************************)
Generated == fut_pc = "generated"
last_ts == x_timestamp[Len(x_timestamp)]

\* C5: from a window of 2 or more strictly increasing timestamps, exactly
\* `periods` future timestamps are generated, strictly increasing and all on
\* Monday to Friday.
C5_FutureTimestamps ==
    (Generated /\ Len(x_timestamp) >= 2)
        => /\ Len(future_timestamps) = periods
           /\ \A i \in 1..(Len(future_timestamps) - 1) :
                  future_timestamps[i] < future_timestamps[i + 1]
           /\ \A i \in 1..Len(future_timestamps) :
                  Weekday(future_timestamps[i]) \in 0..4

\* A window ending on a Friday whose future timestamps run over a weekend.
C5_Witness ==
    /\ Generated
    /\ Len(x_timestamp) >= 2
    /\ Weekday(last_ts) = 4
    /\ periods = MaxPeriods
    /\ Len(future_timestamps) = MaxPeriods
    /\ Weekday(future_timestamps[1]) = 0
    /\ Weekday(future_timestamps[MaxPeriods]) = 0

OnBusinessDays(ts) == \A i \in 1..Len(ts) : Weekday(ts[i]) \in 0..4

\* avg_diff is a median of the gaps of the window: at most half of them are
\* smaller and at most half are larger (one day for a window of one).
IsMedianGap ==
    IF Len(x_timestamp) < 2 THEN avg_diff = Day
    ELSE LET d == TimeDiffs(x_timestamp)
         IN  /\ 2 * Cardinality({i \in 1..Len(d) : d[i] < avg_diff}) <= Len(d)
             /\ 2 * Cardinality({i \in 1..Len(d) : d[i] > avg_diff}) <= Len(d)

\* C6 as stated: the first future timestamp is last_ts + median gap, on
\* whatever weekday the window ends (here: for windows of business days).
C6_Original ==
    (Generated /\ Len(x_timestamp) >= 2 /\ OnBusinessDays(x_timestamp))
        => future_timestamps[1] = last_ts + avg_diff

\* C6 amended: the first future timestamp is last_ts + median gap when that
\* instant is on Monday to Friday, and otherwise the same time of day on the
\* following Monday; the median gap is one day for a window of one.
C6_FirstFutureTimestamp ==
    Generated
        => /\ IsMedianGap
           /\ LET start == last_ts + avg_diff
                  first == future_timestamps[1]
              IN  IF Weekday(start) \in 0..4 THEN first = start
                  ELSE /\ first > start
                       /\ Weekday(first) = 0
                       /\ first - start \in {Day, 2 * Day}

\* A window of daily bars ending on a Friday: the first future timestamp is
\* the Monday after, three days later and not one.
C6_Witness ==
    /\ Generated
    /\ Len(x_timestamp) >= 3
    /\ OnBusinessDays(x_timestamp)
    /\ Weekday(last_ts) = 4
    /\ avg_diff = Day
    /\ future_timestamps[1] = last_ts + 3 * Day

(***************************************************************************)
(* Properties of download_yahoo_finance_data, checked under SpecFetch.     *)
(***************************************************************************)
BadPayload == dl_args.payload \in NoResultPayloads \cup NoTimestampPayloads

NothingReturnedOrWritten == dl_pc = "raised" /\ dl_df = <<>> /\ dl_file = <<>>

\* C7 as stated: an absent or empty result array and an empty timestamp
\* array each reach the caller as an error of a type of its own, not as the
\* generic failure, and nothing is returned or written.
C7_Original ==
    (dl_pc # "call" /\ BadPayload)
        => /\ NothingReturnedOrWritten
           /\ dl_raised.type \notin {None, "Exception"}

\* C7 amended: an absent or empty result array and an empty timestamp array
\* both reach the caller as the generic Exception of line 141, told apart
\* only by the wrapped message; nothing is returned and no file is written.
C7_BadPayload ==
    (dl_pc # "call" /\ BadPayload)
        => /\ NothingReturnedOrWritten
           /\ dl_raised.type = "Exception"
           /\ dl_args.payload \in NoResultPayloads
                => dl_raised.cause = "no_data_for_symbol"
           /\ dl_args.payload \in NoTimestampPayloads
                => dl_raised.cause = "no_history"

C7_Witness ==
    /\ dl_pc = "raised"
    /\ dl_args.payload = "timestamp_empty"
    /\ dl_raised = Exc("Exception", "no_history")
    /\ dl_file = <<>>

\* C8: every failure reaches the caller as a ConnectionError when the HTTP
\* request failed and as the generic Exception otherwise; no other kind of
\* exception escapes.  (Either kind is accepted for a body that is no JSON.)
C8_TwoKinds ==
    dl_pc = "raised"
        => /\ dl_raised.type \in {"ConnectionError", "Exception"}
           /\ dl_args.http \in RequestFailures
                => dl_raised.type = "ConnectionError"
           /\ (dl_args.http \notin RequestFailures
               /\ dl_args.payload # "no_json")
                => dl_raised.type = "Exception"

\* C9: the returned and saved series has strictly increasing timestamps and
\* no null field, whatever the payload.
C9_SortedNoNulls ==
    dl_pc = "returned"
        => /\ dl_file = dl_df
           /\ LET df == dl_df[1]
              IN  /\ \A i \in 1..Len(df) : ~HasNull(df[i])
                  /\ \A i \in 1..(Len(df) - 1) :
                         df[i].timestamps < df[i + 1].timestamps

(***************************************************************************)
(* Properties of the router's error handling, checked under Spec.          *)
(***************************************************************************)

\* C10: every error met while handling a load or predict request comes back
\* as a response that carries success = false and a message.  (That no
\* exception escapes shows in the handler having responded.)
C10_ErrorsBecomeFailureResponses ==
    (pc = "responded" /\ error # "none")
        => /\ response.data # <<>>
           /\ Data.success = FALSE
           /\ Data.message.text # ""

(***************************************************************************)
(* The direction of the adjustment, checked under SpecRecon.               *)
(***************************************************************************)

\* C14: the adjustment only ever reduces: the values given to the predictor
\* are at most the requested ones, and lookback is below the requested value
\* only when pred_len has been brought down to its minimum of 30.
C14_OnlyReduces ==
    (Fetched /\ predictor_call.made)
        => /\ predictor_call.pred_len <= Req.pred_len
           /\ predictor_call.lookback <= Req.lookback
           /\ predictor_call.lookback < Req.lookback
                => predictor_call.pred_len = min_pred_len

(***************************************************************************)
(* The outcomes of predict, checked under Spec.                            *)
(***************************************************************************)
PredictAnswered == pc = "responded" /\ response.data # <<>>

IsFailure ==
    /\ Data.success = FALSE
    /\ Data.prediction_results = 0
    /\ Data.chart = None
    /\ Data.time_range = FALSE

\* C11 as stated: every response of predict is a full success (success=true,
\* exactly actual_pred_len result rows each with its positional future
\* timestamp, a time range and a chart) or a failure (success=false, no
\* result rows, no chart, no time range).
C11_Original ==
    PredictAnswered
        => \/ IsFailure
           \/ /\ Data.success = TRUE
              /\ Data.prediction_results = predictor_call.pred_len
              /\ Data.stamps = [future |-> predictor_call.pred_len, now |-> 0]
              /\ Data.time_range = TRUE
              /\ Data.chart = "json"

\* C11 amended: every response of predict is a failure as above or a success
\* with a time range, with one result row per row the predictor returned
\* (row i with the i-th future timestamp while there is one, any further row
\* with the current time), and with a chart that is None when the chart
\* generation failed; a failed chart generation never makes a failure.
C11_SuccessOrFailure ==
    PredictAnswered
        => \/ IsFailure /\ error # "none"
           \/ /\ Data.success = TRUE
              /\ error = "none"
              /\ predictor_call.made
              /\ Data.stamps.future
                    = Min(Data.prediction_results, predictor_call.pred_len)
              /\ Data.stamps.future + Data.stamps.now = Data.prediction_results
              /\ Data.time_range = TRUE
              /\ Data.chart \in {"json", None}

\* A success without a chart.
C11_Witness ==
    /\ PredictAnswered
    /\ Data.success = TRUE
    /\ Data.chart = None
    /\ Data.time_range = TRUE
    /\ Data.prediction_results = predictor_call.pred_len
    /\ Data.stamps.future = predictor_call.pred_len

(***************************************************************************)
(* The global slot, checked under Spec and SpecLoop.                       *)
(***************************************************************************)
Key == RequestedModelKey(Req)

Resident(key) == <<key, key, key, key>>

\* What line 244 saw when the request came in.
NeededLoad == slot_before[3] = None \/ slot_before[4] # Key

\* C12: the slot holds the model of the last successful load; a predict
\* request that finds nothing loaded or another key resident loads its own
\* (normalised) key, so that inference runs with the predictor of that key
\* and the resident key is that key; a predict request whose key is resident
\* goes through no load and leaves the slot as it is.
C12_SlotHoldsLastLoad ==
    /\ slot = Resident(last_loaded)
    /\ (PredictAnswered /\ MODEL_AVAILABLE /\ NeededLoad)
          => /\ loading.key = Key
             /\ loading.outcome # "none"
             /\ predictor_call.made
                   => slot = Resident(Key) /\ predictor_call.by = Key
    /\ (PredictAnswered /\ MODEL_AVAILABLE /\ ~NeededLoad)
          => loading = NoLoad /\ slot = slot_before

TwoKeysInFlight ==
    \E a \in inflight, b \in inflight :
        RequestedModelKey(a) # RequestedModelKey(b)

\* C13 as stated, for the runs in which the event loop keeps serving: once
\* two requests for different model keys are in flight (the model library
\* being importable), a predict request
\* runs inference with a predictor that was loaded for another key than its
\* own.
C13_Original ==
    (MODEL_AVAILABLE /\ TwoKeysInFlight)
        ~> (PredictAnswered /\ predictor_call.made /\ predictor_call.by # Key)

\* C13 amended: with requests for different model keys in flight in one
\* process, every predict request that reaches inference runs it with the
\* predictor loaded for its own (normalised) key, which is then the resident
\* key: no handler ever sees the slot as another handler left it half-way.
C13_OwnPredictor ==
    (PredictAnswered /\ predictor_call.made)
        => /\ predictor_call.by = Key
           /\ predictor = Key
           /\ current_model_key = Key

\* A request ran inference after the slot held the key of another request
\* that is still in flight.
C13_Witness ==
    /\ PredictAnswered
    /\ predictor_call.made
    /\ predictor_call.by = Key
    /\ \E other \in inflight :
          /\ RequestedModelKey(other) # Key
          /\ slot_before = Resident(RequestedModelKey(other))

\* C15 as stated: a predict request answered with success=false leaves the
\* four globals as it found them.
C15_Original ==
    (PredictAnswered /\ Data.success = FALSE) => slot = slot_before

\* C15 amended: a predict request answered with success=false leaves the four
\* globals as it found them when it went through no load (library missing, or
\* its key resident) or when the tokenizer could not be loaded; a load that
\* raised later leaves the predictor and the resident key as they were, with
\* the tokenizer (and the model, if only the predictor raised) of the
\* requested key; a failure after the load (fetch, no data, insufficient
\* history, predictor exception) leaves the requested model in the slot.
C15_FailedPredictSlot ==
    (PredictAnswered /\ Data.success = FALSE)
        => /\ loading.outcome = "none" <=> (~MODEL_AVAILABLE \/ ~NeededLoad)
           /\ loading.outcome \in {"none", "tokenizer"} => slot = slot_before
           /\ loading.outcome = "model"
                 => slot = <<Key, slot_before[2], slot_before[3], slot_before[4]>>
           /\ loading.outcome = "predictor"
                 => slot = <<Key, Key, slot_before[3], slot_before[4]>>
           /\ loading.outcome = "ok"
                 => slot = Resident(Key) /\ error # "load_failed"

\* A request that loaded its model and then found no data.
C15_Witness ==
    /\ PredictAnswered
    /\ Data.success = FALSE
    /\ error = "no_data"
    /\ loading.outcome = "ok"
    /\ slot = Resident(Key)
    /\ slot # slot_before

====
